---- MODULE Spec2Model ----
(***************************************************************************)
(* Argument marshaling of the contract-interface encoder (package abi):    *)
(* Arguments.Pack, Arguments.PackPrefix, Arguments.UnpackValues,           *)
(* Arguments.Unpack and Arguments.UnpackIntoMap.                           *)
(*                                                                         *)
(* Byte sequences are sequences of 0..255.  Go values are tagged pairs     *)
(* <<kind, payload>>.  Every operation is a pure function of its receiver  *)
(* (the Argument List) and its inputs; an action applies one operation to  *)
(* inputs drawn from bounded sets and records what it returned.            *)
(***************************************************************************)
EXTENDS Integers, Sequences, FiniteSets, TLC

VARIABLES
    arguments,  \* the receiver: a sequence of [Name, Type, Indexed]
    values,     \* one well-typed Go value per Argument Descriptor
    op,         \* the operation applied last ("init" before any)
    args,       \* the values handed to Pack / PackPrefix
    data,       \* the bytes handed to UnpackValues / Unpack / UnpackIntoMap
    v,          \* the destination handed to Unpack / UnpackIntoMap
    res         \* what the operation returned and left behind

vars == <<arguments, values, op, args, data, v, res>>

---------------------------------------------------------------------------
(* Bounds *)

\* longest Argument List drawn
MaxArgs == 2

\* longest slice / array destination handed to Unpack
MaxDestLen == 2

\* seeds the sample values of a Type are built from
Seeds == {1, 2}

---------------------------------------------------------------------------
(* Bytes and integers *)

\* width of one head slot, in bytes
WordSize == 32

\* values of one byte
Byte == 2 ^ 8

Min(a, b) == IF a < b THEN a ELSE b

Zeros(n) == [i \in 1..n |-> 0]

RECURSIVE BitLen(_)
\* big.Int.BitLen
BitLen(n) == IF n = 0 THEN 0 ELSE 1 + BitLen(n \div 2)

RECURSIVE BigBytes(_)
\* big.Int.Bytes: the minimal big-endian bytes of n, empty for 0
BigBytes(n) == IF n = 0 THEN <<>> ELSE Append(BigBytes(n \div Byte), n % Byte)

\* math.PaddedBigBytes: big-endian, left-padded to n bytes; a value that
\* already fills n bytes or more is returned at its own length
PaddedBigBytes(bigint, n) ==
    IF BitLen(bigint) \div 8 >= n
    THEN BigBytes(bigint)
    ELSE Zeros(n - Len(BigBytes(bigint))) \o BigBytes(bigint)

\* packNum on a non-negative integer: U256 as 32 big-endian bytes
packNum(n) == PaddedBigBytes(n, WordSize)

RECURSIVE BigEndian(_)
BigEndian(bs) ==
    IF bs = <<>> THEN 0
    ELSE BigEndian(SubSeq(bs, 1, Len(bs) - 1)) * Byte + bs[Len(bs)]

\* the 32-byte big-endian integer at byte offset index (0-based)
ReadInteger(output, index) == BigEndian(SubSeq(output, index + 1, index + WordSize))

\* common.RightPadBytes to a whole number of words
RightPadWords(bs) ==
    bs \o Zeros(((Len(bs) + WordSize - 1) \div WordSize) * WordSize - Len(bs))

---------------------------------------------------------------------------
(* Types and Go values *)

UintTy == [T |-> "UintTy"]
BytesTy == [T |-> "BytesTy"]
AddressTy == [T |-> "AddressTy"]
ArrayOf(n, elem) == [T |-> "ArrayTy", Size |-> n, Elem |-> elem]
SliceOf(elem) == [T |-> "SliceTy", Elem |-> elem]

IntV(n) == <<"int", n>>
BytesV(bs) == <<"bytes", bs>>
ArrV(es) == <<"arr", es>>
\* a Go value of a kind no Type of the model accepts
BadV == <<"bad", 0>>

\* an address value: the PKr record p
AddrV(p) == <<"addr", p>>
\* a slice of n addresses, the PKr records p, p + 1, ..., p + n - 1
AddrsV(p, n) == <<"addrs", <<p, n>>>>

Kind(val) == val[1]

RECURSIVE Sample(_, _)
\* a well-typed value of Type t, built from seed k; array elements differ
Sample(t, k) ==
    CASE t.T = "UintTy" -> IntV(200 * k)
      [] t.T = "BytesTy" -> BytesV([i \in 1..(33 * (k - 1)) |-> i + k])
      [] t.T = "ArrayTy" -> ArrV([i \in 1..t.Size |-> Sample(t.Elem, k + i)])

ValuesOf(t) == {Sample(t, k) : k \in Seeds}

\* the Types of the codec specification: a scalar, a dynamic type, a static
\* array and a nested static array
CodecTypes == {UintTy, BytesTy, ArrayOf(3, UintTy), ArrayOf(2, ArrayOf(3, UintTy))}

---------------------------------------------------------------------------
(* The Type codec *)

NoErr == "nil"

\* Type.requiresLengthPrefix
requiresLengthPrefix(t) == t.T \in {"StringTy", "BytesTy", "SliceTy"}

\* typeCheck: the value's kind is the Type's kind, an array has Size elements
typeCheck(t, val) ==
    CASE t.T = "UintTy" -> Kind(val) = "int"
      [] t.T = "BytesTy" -> Kind(val) = "bytes"
      [] t.T = "ArrayTy" -> Kind(val) = "arr" /\ Len(val[2]) = t.Size
      [] t.T = "AddressTy" -> Kind(val) = "addr"
      [] t.T = "SliceTy" -> Kind(val) = "addrs"
      [] OTHER -> FALSE

RECURSIVE typePack(_, _)
\* Type.pack: [err, bytes].  A static array is the concatenation of its
\* packed elements; bytes are a length word and the right-padded payload.
typePack(t, val) ==
    IF ~typeCheck(t, val) THEN [err |-> "codec", bytes |-> <<>>]
    ELSE CASE t.T = "UintTy" -> [err |-> NoErr, bytes |-> packNum(val[2])]
           [] t.T = "BytesTy" ->
                [err |-> NoErr, bytes |-> packNum(Len(val[2])) \o RightPadWords(val[2])]
           [] t.T = "ArrayTy" ->
                LET RECURSIVE Elems(_)
                    Elems(i) ==
                        IF i > t.Size THEN [err |-> NoErr, bytes |-> <<>>]
                        ELSE LET e == typePack(t.Elem, val[2][i])
                                 r == Elems(i + 1)
                             IN IF e.err # NoErr THEN e
                                ELSE IF r.err # NoErr THEN r
                                ELSE [err |-> NoErr, bytes |-> e.bytes \o r.bytes]
                IN Elems(1)

\* forEachUnpack's stride: the head slots one value of Type t occupies inline
RECURSIVE ElemSlots(_)
ElemSlots(t) == IF t.T = "ArrayTy" THEN t.Size * ElemSlots(t.Elem) ELSE 1

RECURSIVE toGoType(_, _, _)
\* toGoType: decode the value of Type t whose head slot is at byte offset
\* index of output: [err, val]
toGoType(index, t, output) ==
    IF index + WordSize > Len(output) THEN [err |-> "codec", val |-> BadV]
    ELSE CASE t.T = "UintTy" -> [err |-> NoErr, val |-> IntV(ReadInteger(output, index))]
           [] t.T = "BytesTy" ->
                LET offset == ReadInteger(output, index)
                    length == ReadInteger(output, offset)
                IN IF offset + WordSize > Len(output)
                   THEN [err |-> "codec", val |-> BadV]
                   ELSE IF offset + WordSize + length > Len(output)
                   THEN [err |-> "codec", val |-> BadV]
                   ELSE [err |-> NoErr,
                         val |-> BytesV(SubSeq(output, offset + WordSize + 1,
                                               offset + WordSize + length))]
           [] t.T = "ArrayTy" ->
                LET elemSize == WordSize * ElemSlots(t.Elem)
                    RECURSIVE Elems(_)
                    Elems(j) ==
                        IF j > t.Size THEN [err |-> NoErr, val |-> <<>>]
                        ELSE LET e == toGoType(index + (j - 1) * elemSize, t.Elem, output)
                                 r == Elems(j + 1)
                             IN IF e.err # NoErr THEN e
                                ELSE IF r.err # NoErr THEN r
                                ELSE [err |-> NoErr, val |-> <<e.val>> \o r.val]
                    all == Elems(1)
                IN IF all.err # NoErr THEN all ELSE [err |-> NoErr, val |-> ArrV(all.val)]

---------------------------------------------------------------------------
(* Argument Lists *)

RECURSIVE LengthNonIndexed(_)
LengthNonIndexed(arguments_) ==
    IF arguments_ = <<>> THEN 0
    ELSE (IF Head(arguments_).Indexed THEN 0 ELSE 1) + LengthNonIndexed(Tail(arguments_))

RECURSIVE NonIndexed(_)
NonIndexed(arguments_) ==
    IF arguments_ = <<>> THEN <<>>
    ELSE IF Head(arguments_).Indexed
         THEN NonIndexed(Tail(arguments_))
         ELSE <<Head(arguments_)>> \o NonIndexed(Tail(arguments_))

\* isTuple counting the non-indexed arguments only
isTupleNonIndexed(arguments_) == LengthNonIndexed(arguments_) > 1

isTuple(arguments_) == Len(arguments_) > 1

\* getArraySize stopping at the array's own dimension
getArraySizeOuter(arr) == arr.Size

RECURSIVE getArraySize(_)
\* the loop of getArraySize: Size times the Size of every array level below
getArraySize(arr) ==
    IF arr.Elem.T = "ArrayTy" THEN arr.Size * getArraySize(arr.Elem) ELSE arr.Size

---------------------------------------------------------------------------
(* Pack *)

RECURSIVE InputOffset(_)
\* the head size Pack computes up front: 32 per argument, 32 * Size per array
InputOffset(abiArgs) ==
    IF abiArgs = <<>> THEN 0
    ELSE (IF Head(abiArgs).Type.T = "ArrayTy"
          THEN WordSize * Head(abiArgs).Type.Size
          ELSE WordSize) + InputOffset(Tail(abiArgs))

PackStart(abiArgs) ==
    [err |-> NoErr, ret |-> <<>>, variableInput |-> <<>>,
     inputOffset |-> InputOffset(abiArgs), offsets |-> <<>>, packCalls |-> 0]

PackFail(st, e) == [st EXCEPT !.err = e, !.ret = <<>>]

RECURSIVE PackLoop(_, _, _, _)
\* the loop over args: st.ret is the head so far, st.variableInput the tail;
\* offsets records, per length-prefixed argument, the offset written, the byte
\* index of its slot and the tail length when it was written
PackLoop(abiArgs, args_, i, st) ==
    IF i > Len(args_) THEN [st EXCEPT !.ret = st.ret \o st.variableInput]
    ELSE LET input == abiArgs[i]
             packed == typePack(input.Type, args_[i])
             called == [st EXCEPT !.packCalls = st.packCalls + 1]
         IN IF packed.err # NoErr THEN PackFail(called, packed.err)
            ELSE IF requiresLengthPrefix(input.Type)
            THEN LET offset == st.inputOffset + Len(st.variableInput)
                 IN PackLoop(abiArgs, args_, i + 1,
                        [called EXCEPT
                            !.ret = st.ret \o packNum(offset),
                            !.offsets = Append(st.offsets,
                                [arg |-> i, offset |-> offset, slot |-> Len(st.ret),
                                 tailStart |-> Len(st.variableInput),
                                 len |-> Len(packed.bytes)]),
                            !.variableInput = st.variableInput \o packed.bytes])
            ELSE PackLoop(abiArgs, args_, i + 1,
                        [called EXCEPT !.ret = st.ret \o packed.bytes])

\* Pack comparing the counts only after the values are packed
PackArityLate(arguments_, args_) ==
    LET n == Min(Len(args_), Len(arguments_))
        r == PackLoop(arguments_, SubSeq(args_, 1, n), 1, PackStart(arguments_))
    IN IF r.err # NoErr THEN r
       ELSE IF Len(args_) # Len(arguments_)
       THEN PackFail(r, "argument count mismatch")
       ELSE r

\* Arguments.Pack
Pack(arguments_, args_) ==
    IF Len(args_) # Len(arguments_)
    THEN PackFail(PackStart(arguments_), "argument count mismatch")
    ELSE PackLoop(arguments_, args_, 1, PackStart(arguments_))

---------------------------------------------------------------------------
(* UnpackValues *)

RECURSIVE UnpackLoop(_, _, _, _, _)
\* the loop over the non-indexed arguments; index is 0-based, st.cursors the
\* byte offsets toGoType was called at
UnpackLoop(nonIndexed, data_, index, virtualArgs, st) ==
    IF index >= Len(nonIndexed) THEN st
    ELSE LET arg == nonIndexed[index + 1]
             at == (index + virtualArgs) * WordSize
             marshalledValue == toGoType(at, arg.Type, data_)
             virtualArgs2 == IF arg.Type.T = "ArrayTy"
                             THEN virtualArgs + getArraySize(arg.Type) - 1
                             ELSE virtualArgs
             seen == [st EXCEPT !.cursors = Append(st.cursors, at)]
         IN IF marshalledValue.err # NoErr
            THEN [seen EXCEPT !.err = marshalledValue.err, !.retval = <<>>]
            ELSE UnpackLoop(nonIndexed, data_, index + 1, virtualArgs2,
                     [seen EXCEPT !.retval = Append(st.retval, marshalledValue.val)])

\* UnpackValues walking every argument, indexed ones included
UnpackValuesAll(arguments_, data_) ==
    UnpackLoop(arguments_, data_, 0, 0,
               [err |-> NoErr, retval |-> <<>>, cursors |-> <<>>])

\* Arguments.UnpackValues
UnpackValues(arguments_, data_) ==
    UnpackLoop(NonIndexed(arguments_), data_, 0, 0,
               [err |-> NoErr, retval |-> <<>>, cursors |-> <<>>])

---------------------------------------------------------------------------
(* Destinations *)

\* A destination is [kind, names, elems]: "NonPtr" (not a pointer), or a
\* pointer to a "Slice" (slice or array), a "Struct" (names are its field
\* names) or an "Other" single location.  elems are locations [ty, val]: ty
\* is the static type of the location, "interface" holding any value.
Old == <<"old", 0>>

Loc(ty) == [ty |-> ty, val |-> Old]

\* set: assign src to the location, or fail when it is not assignable
set(dst, src) ==
    IF dst.ty = "interface" \/ dst.ty = Kind(src)
    THEN [err |-> NoErr, loc |-> [dst EXCEPT !.val = src]]
    ELSE [err |-> "cannot unmarshal", loc |-> dst]

\* the struct field an argument name resolves to
FieldOf(name) ==
    CASE name = "a" -> "A" [] name = "b" -> "B" [] name = "c" -> "C" [] OTHER -> ""

FieldIndex(names, field) ==
    IF \E i \in 1..Len(names) : names[i] = field
    THEN CHOOSE i \in 1..Len(names) : names[i] = field
    ELSE 0

\* mapArgNamesToStructFields: fails when a name resolves to no field
mapArgNamesToStructFields(argNames, value) ==
    IF \E i \in 1..Len(argNames) : FieldIndex(value.names, FieldOf(argNames[i])) = 0
    THEN [err |-> "no field", abi2struct |-> <<>>]
    ELSE [err |-> NoErr, abi2struct |-> [i \in 1..Len(argNames) |-> FieldOf(argNames[i])]]

RECURSIVE StructLoop(_, _, _, _, _)
\* unpackTuple, case reflect.Struct: the loop over nonIndexedArgs
StructLoop(nonIndexedArgs, abi2struct, marshalledValues, i, st) ==
    IF i > Len(nonIndexedArgs) THEN st
    ELSE LET f == FieldIndex(st.v.names, abi2struct[i])
         IN IF f = 0 THEN [st EXCEPT !.err = "field not found"]
            ELSE LET r == set(st.v.elems[f], marshalledValues[i])
                 IN IF r.err # NoErr THEN [st EXCEPT !.err = r.err]
                    ELSE StructLoop(nonIndexedArgs, abi2struct, marshalledValues, i + 1,
                             [st EXCEPT !.v.elems[f] = r.loc])

RECURSIVE SliceLoop(_, _, _, _)
\* unpackTuple, case reflect.Slice, reflect.Array: the loop over
\* nonIndexedArgs; st.touched are the positions indexed so far, and an index
\* outside the destination or the decoded values panics
SliceLoop(nonIndexedArgs, marshalledValues, i, st) ==
    IF i > Len(nonIndexedArgs) THEN st
    ELSE IF i > Len(st.v.elems) \/ i > Len(marshalledValues)
    THEN [st EXCEPT !.err = "panic: index out of range", !.touched = Append(st.touched, i)]
    ELSE LET r == set(st.v.elems[i], marshalledValues[i])
             seen == [st EXCEPT !.touched = Append(st.touched, i)]
         IN IF r.err # NoErr THEN [seen EXCEPT !.err = r.err]
            ELSE SliceLoop(nonIndexedArgs, marshalledValues, i + 1,
                     [seen EXCEPT !.v.elems[i] = r.loc])

\* unpackTuple with the length check left out
unpackTupleUnchecked(arguments_, v_, marshalledValues) ==
    LET nonIndexedArgs == NonIndexed(arguments_)
        start == [err |-> NoErr, v |-> v_, touched |-> <<>>]
    IN CASE v_.kind = "Struct" ->
              LET argNames == [i \in 1..Len(nonIndexedArgs) |-> nonIndexedArgs[i].Name]
                  m == mapArgNamesToStructFields(argNames, v_)
              IN IF m.err # NoErr THEN [start EXCEPT !.err = m.err]
                 ELSE StructLoop(nonIndexedArgs, m.abi2struct, marshalledValues, 1, start)
         [] v_.kind = "Slice" -> SliceLoop(nonIndexedArgs, marshalledValues, 1, start)
         [] OTHER -> [start EXCEPT !.err = "cannot unmarshal tuple"]

\* Arguments.unpackTuple: [err, v, touched]
unpackTuple(arguments_, v_, marshalledValues) ==
    LET nonIndexedArgs == NonIndexed(arguments_)
        start == [err |-> NoErr, v |-> v_, touched |-> <<>>]
    IN CASE v_.kind = "Struct" ->
              LET argNames == [i \in 1..Len(nonIndexedArgs) |-> nonIndexedArgs[i].Name]
                  m == mapArgNamesToStructFields(argNames, v_)
              IN IF m.err # NoErr THEN [start EXCEPT !.err = m.err]
                 ELSE StructLoop(nonIndexedArgs, m.abi2struct, marshalledValues, 1, start)
         [] v_.kind = "Slice" ->
              IF Len(v_.elems) < Len(marshalledValues)
              THEN [start EXCEPT !.err = "insufficient number of arguments"]
              ELSE SliceLoop(nonIndexedArgs, marshalledValues, 1, start)
         [] OTHER -> [start EXCEPT !.err = "cannot unmarshal tuple"]

\* Arguments.unpackAtomic: a struct takes a non-struct value in its first
\* field; anything else is assigned as a whole (a slice or array destination
\* as a whole accepts no scalar or bytes value)
unpackAtomic(arguments_, v_, marshalledValue) ==
    LET start == [err |-> NoErr, v |-> v_, touched |-> <<>>]
    IN IF v_.kind \in {"Struct", "Other"}
       THEN LET r == set(v_.elems[1], marshalledValue)
            IN IF r.err # NoErr THEN [start EXCEPT !.err = r.err]
               ELSE [start EXCEPT !.v.elems[1] = r.loc]
       ELSE [start EXCEPT !.err = "cannot unmarshal"]

\* Arguments.Unpack: [err, v, route, touched]; route is the unpacker reached
Unpack(arguments_, v_, data_) ==
    LET untouched(e) == [err |-> e, v |-> v_, route |-> "none", touched |-> <<>>]
        decoded == UnpackValues(arguments_, data_)
        marshalledValues == decoded.retval
    IN IF v_.kind = "NonPtr" THEN untouched("non-pointer")
       ELSE IF decoded.err # NoErr THEN untouched(decoded.err)
       ELSE IF Len(marshalledValues) = 0 THEN untouched("no-values unmarshalled")
       ELSE IF isTuple(arguments_)
       THEN LET r == unpackTuple(arguments_, v_, marshalledValues)
            IN [err |-> r.err, v |-> r.v, route |-> "tuple", touched |-> r.touched]
       ELSE LET r == unpackAtomic(arguments_, v_, marshalledValues[1])
            IN [err |-> r.err, v |-> r.v, route |-> "atomic", touched |-> r.touched]

\* v[key] = val on a map held as a function
MapSet(m, key, val) ==
    [k \in DOMAIN m \cup {key} |-> IF k = key THEN val ELSE m[k]]

RECURSIVE MapLoop(_, _, _, _)
MapLoop(nonIndexedArgs, marshalledValues, i, m) ==
    IF i > Len(nonIndexedArgs) THEN m
    ELSE MapLoop(nonIndexedArgs, marshalledValues, i + 1,
                 MapSet(m, nonIndexedArgs[i].Name, marshalledValues[i]))

RECURSIVE MapLoopKeepFirst(_, _, _, _)
MapLoopKeepFirst(nonIndexedArgs, marshalledValues, i, m) ==
    IF i > Len(nonIndexedArgs) THEN m
    ELSE MapLoopKeepFirst(nonIndexedArgs, marshalledValues, i + 1,
             IF nonIndexedArgs[i].Name \in DOMAIN m THEN m
             ELSE MapSet(m, nonIndexedArgs[i].Name, marshalledValues[i]))

\* unpackIntoMap that leaves a key alone once it is in the map
unpackIntoMapKeepFirst(arguments_, v_, marshalledValues) ==
    IF v_.kind = "NilMap" THEN [err |-> "cannot unpack into a nil map", v |-> v_]
    ELSE [err |-> NoErr,
          v |-> [v_ EXCEPT !.m = MapLoopKeepFirst(NonIndexed(arguments_), marshalledValues, 1, v_.m)]]

\* Arguments.unpackIntoMap: [err, v]
unpackIntoMap(arguments_, v_, marshalledValues) ==
    IF v_.kind = "NilMap" THEN [err |-> "cannot unpack into a nil map", v |-> v_]
    ELSE [err |-> NoErr,
          v |-> [v_ EXCEPT !.m = MapLoop(NonIndexed(arguments_), marshalledValues, 1, v_.m)]]

\* Arguments.UnpackIntoMap
UnpackIntoMap(arguments_, v_, data_) ==
    LET decoded == UnpackValues(arguments_, data_)
    IN IF decoded.err # NoErr THEN [err |-> decoded.err, v |-> v_]
       ELSE unpackIntoMap(arguments_, v_, decoded.retval)

---------------------------------------------------------------------------
(* PackPrefix *)

\* bytes of one address record (c_type.PKr)
PKrSize == 96

\* Type.getAllAddress: [err, pkrs], the addresses embedded in a value
getAllAddress(t, val) ==
    IF ~typeCheck(t, val) THEN [err |-> "codec", pkrs |-> <<>>]
    ELSE CASE t.T = "AddressTy" -> [err |-> NoErr, pkrs |-> <<val[2]>>]
           [] t.T = "SliceTy" ->
                [err |-> NoErr, pkrs |-> [i \in 1..val[2][2] |-> val[2][1] + i - 1]]
           [] OTHER -> [err |-> NoErr, pkrs |-> <<>>]

RECURSIVE PrefixLoop(_, _, _, _)
\* the loop over args gathering result
PrefixLoop(abiArgs, args_, i, result) ==
    IF i > Len(args_) THEN [err |-> NoErr, result |-> result]
    ELSE LET pkrs == getAllAddress(abiArgs[i].Type, args_[i])
         IN IF pkrs.err # NoErr THEN [err |-> pkrs.err, result |-> <<>>]
            ELSE PrefixLoop(abiArgs, args_, i + 1, result \o pkrs.pkrs)

\* Arguments.PackPrefix: [err, lenBytes, records].  The bytes returned are
\* lenBytes followed by the records; a record is kept as one element that
\* stands for its PKrSize bytes.
PackPrefix(arguments_, args_) ==
    IF Len(args_) # Len(arguments_)
    THEN [err |-> "argument count mismatch", lenBytes |-> <<>>, records |-> <<>>]
    ELSE LET r == PrefixLoop(arguments_, args_, 1, <<>>)
         IN IF r.err # NoErr THEN [err |-> r.err, lenBytes |-> <<>>, records |-> <<>>]
            ELSE [err |-> NoErr,
                  lenBytes |-> PaddedBigBytes(Len(r.result), 2),
                  records |-> r.result]

\* length in bytes of what PackPrefix returned
RetLen(r) == Len(r.lenBytes) + PKrSize * Len(r.records)

---------------------------------------------------------------------------
(* Inputs *)

RECURSIVE NonIndexedValues(_, _)
\* the values that belong to the non-indexed arguments
NonIndexedValues(arguments_, values_) ==
    IF arguments_ = <<>> THEN <<>>
    ELSE IF Head(arguments_).Indexed
         THEN NonIndexedValues(Tail(arguments_), Tail(values_))
         ELSE <<Head(values_)>> \o NonIndexedValues(Tail(arguments_), Tail(values_))

PosName(i) == <<"a", "b", "c", "d">>[i]

\* an Argument Descriptor's Type and flag with a value of that Type
CodecSlots ==
    UNION {{[Type |-> t, Indexed |-> x, val |-> val] : val \in ValuesOf(t)} :
           <<t, x>> \in CodecTypes \X BOOLEAN}

CodecInputs == UNION {[1..n -> CodecSlots] : n \in 0..MaxArgs}

\* the body bytes an encoder of the non-indexed arguments produces
Wire(arguments_, values_) ==
    Pack(NonIndexed(arguments_), NonIndexedValues(arguments_, values_)).ret

Truncated(bs) == SubSeq(bs, 1, Len(bs) - 1)

DataChoices == {Wire(arguments, values), Truncated(Wire(arguments, values))}

\* the value sequences Pack is called with: the matching values, only the
\* non-indexed arguments' values, one value too many, one value the codec
\* rejects, one value too few with the first one rejected by the codec
ArgsChoices ==
    {values, NonIndexedValues(arguments, values), Append(values, BadV)}
    \cup {[values EXCEPT ![i] = BadV] : i \in 1..Len(values)}
    \cup {SubSeq([values EXCEPT ![1] = BadV], 1, Len(values) - 1) : i \in 1..Len(values)}

NoDest == [kind |-> "none"]

Init ==
    /\ \E s \in CodecInputs :
        /\ arguments = [i \in 1..Len(s) |->
                          [Name |-> PosName(i), Type |-> s[i].Type, Indexed |-> s[i].Indexed]]
        /\ values = [i \in 1..Len(s) |-> s[i].val]
    /\ op = "init"
    /\ args = <<>>
    /\ data = <<>>
    /\ v = NoDest
    /\ res = [err |-> NoErr]

DoPack ==
    /\ op = "init"
    /\ \E a \in ArgsChoices :
        /\ args' = a
        /\ res' = Pack(arguments, a)
    /\ op' = "Pack"
    /\ UNCHANGED <<arguments, values, data, v>>

DoUnpackValues ==
    /\ op = "init"
    /\ \E d \in DataChoices :
        /\ data' = d
        /\ res' = UnpackValues(arguments, d)
    /\ op' = "UnpackValues"
    /\ UNCHANGED <<arguments, values, args, v>>

Next == DoPack \/ DoUnpackValues

\* Pack and UnpackValues on lists of scalars, dynamic bytes and static arrays
Spec == Init /\ [][Next]_vars

---------------------------------------------------------------------------
(* Unpack and UnpackIntoMap *)

DestSlots == {UintTy, BytesTy} \X {"a", "b"} \X BOOLEAN

DestInputs == UNION {[1..n -> DestSlots] : n \in 0..MaxArgs}

UnpackDests ==
    {[kind |-> "NonPtr", names |-> <<>>, elems |-> <<>>]}
    \cup {[kind |-> "Slice", names |-> <<>>, elems |-> [i \in 1..n |-> Loc(ty)]] :
            <<n, ty>> \in (0..MaxDestLen) \X {"interface", "int"}}
    \cup {[kind |-> "Struct", names |-> <<"A">>, elems |-> <<Loc("interface")>>],
          [kind |-> "Struct", names |-> <<"A", "B">>, elems |-> <<Loc("int"), Loc("interface")>>]}
    \cup {[kind |-> "Other", names |-> <<>>, elems |-> <<Loc(ty)>>] : ty \in {"interface", "int"}}

MapDests ==
    {[kind |-> "NilMap", m |-> <<>>],
     [kind |-> "Map", m |-> <<>>],
     [kind |-> "Map", m |-> [k \in {"a", "z"} |-> Old]]}

InitDest ==
    /\ \E s \in DestInputs :
        /\ arguments = [i \in 1..Len(s) |->
                          [Name |-> s[i][2], Type |-> s[i][1], Indexed |-> s[i][3]]]
        /\ values = [i \in 1..Len(s) |-> Sample(s[i][1], i)]
    /\ op = "init"
    /\ args = <<>>
    /\ data = <<>>
    /\ v = NoDest
    /\ res = [err |-> NoErr]

DoUnpack ==
    /\ op = "init"
    /\ \E d \in DataChoices, dst \in UnpackDests :
        /\ data' = d
        /\ v' = dst
        /\ res' = Unpack(arguments, dst, d)
    /\ op' = "Unpack"
    /\ UNCHANGED <<arguments, values, args>>

DoUnpackIntoMap ==
    /\ op = "init"
    /\ \E d \in DataChoices, dst \in MapDests :
        /\ data' = d
        /\ v' = dst
        /\ res' = UnpackIntoMap(arguments, dst, d)
    /\ op' = "UnpackIntoMap"
    /\ UNCHANGED <<arguments, values, args>>

NextDest == DoUnpack \/ DoUnpackIntoMap

\* Unpack and UnpackIntoMap on lists of named scalars and dynamic bytes
SpecDest == InitDest /\ [][NextDest]_vars

---------------------------------------------------------------------------
(* PackPrefix inputs *)

\* the longest address slice drawn: the largest count two bytes hold
MaxUint16 == 2 ^ 16 - 1

PrefixSlots ==
    UNION {{[Type |-> t, Indexed |-> x, val |-> val] :
                val \in CASE t.T = "AddressTy" -> {AddrV(1), AddrV(2)}
                          [] t.T = "SliceTy" -> {AddrsV(1, 0), AddrsV(3, 2), AddrsV(5, MaxUint16)}
                          [] OTHER -> {Sample(t, 1)}} :
           <<t, x>> \in {AddressTy, SliceOf(AddressTy), UintTy} \X BOOLEAN}

PrefixInputs == UNION {[1..n -> PrefixSlots] : n \in 0..MaxArgs}

PrefixArgsChoices ==
    {values, Append(values, BadV)} \cup {[values EXCEPT ![i] = BadV] : i \in 1..Len(values)}

InitPrefix ==
    /\ \E s \in PrefixInputs :
        /\ arguments = [i \in 1..Len(s) |->
                          [Name |-> PosName(i), Type |-> s[i].Type, Indexed |-> s[i].Indexed]]
        /\ values = [i \in 1..Len(s) |-> s[i].val]
    /\ op = "init"
    /\ args = <<>>
    /\ data = <<>>
    /\ v = NoDest
    /\ res = [err |-> NoErr]

DoPackPrefix ==
    /\ op = "init"
    /\ \E a \in PrefixArgsChoices :
        /\ args' = a
        /\ res' = PackPrefix(arguments, a)
    /\ op' = "PackPrefix"
    /\ UNCHANGED <<arguments, values, data, v>>

NextPrefix == DoPackPrefix

\* PackPrefix on lists of addresses, address slices and scalars
SpecPrefix == InitPrefix /\ [][NextPrefix]_vars

---------------------------------------------------------------------------
(* Claims about Pack and UnpackValues *)

AllNonIndexed(arguments_) == \A i \in 1..Len(arguments_) : ~arguments_[i].Indexed

RECURSIVE DeclaredSlots(_)
\* head slots of a Type as declared: the product of the dimension sizes of an
\* array and of the array levels below it, 1 for anything else
DeclaredSlots(t) == IF t.T = "ArrayTy" THEN t.Size * DeclaredSlots(t.Elem) ELSE 1

RECURSIVE SlotsBefore(_, _)
SlotsBefore(nonIndexed, k) ==
    IF k <= 1 THEN 0
    ELSE SlotsBefore(nonIndexed, k - 1) + DeclaredSlots(nonIndexed[k - 1].Type)

RECURSIVE TailOf(_, _, _)
\* the packed bytes of the length-prefixed arguments among the first n, in order
TailOf(abiArgs, args_, n) ==
    IF n = 0 THEN <<>>
    ELSE TailOf(abiArgs, args_, n - 1) \o
         (IF requiresLengthPrefix(abiArgs[n].Type)
          THEN typePack(abiArgs[n].Type, args_[n]).bytes ELSE <<>>)

HasNested(arguments_) ==
    \E i \in 1..Len(arguments_) :
        arguments_[i].Type.T = "ArrayTy" /\ arguments_[i].Type.Elem.T = "ArrayTy"

\* C1: for an Argument List of non-indexed arguments and values its Types
\* accept, UnpackValues of Pack's output succeeds and returns the values
C1_RoundTrip ==
    (op = "UnpackValues" /\ AllNonIndexed(arguments)
        /\ Pack(arguments, values).err = NoErr /\ data = Pack(arguments, values).ret)
    => (res.err = NoErr /\ res.retval = values)

\* C2: when Pack succeeds, every offset written into the head is the byte
\* index of the output at which that argument's packed bytes begin, and the
\* output ends with the length-prefixed arguments' packed bytes in order
C2_OffsetsPointAtData ==
    (op = "Pack" /\ res.err = NoErr)
    => LET tail == TailOf(arguments, args, Len(args))
           headLen == Len(res.ret) - Len(tail)
       IN /\ SubSeq(res.ret, headLen + 1, Len(res.ret)) = tail
          /\ \A k \in 1..Len(res.offsets) :
                LET o == res.offsets[k]
                    begins == headLen + Len(TailOf(arguments, args, o.arg - 1))
                IN /\ ReadInteger(res.ret, o.slot) = o.offset
                   /\ o.offset = begins

\* C10: when Pack succeeds, the head size computed up front is the number of
\* bytes emitted before the tail
C10_HeadSizeIsHeadLength ==
    (op = "Pack" /\ res.err = NoErr)
    => /\ res.inputOffset = Len(res.ret) - Len(res.variableInput)
       /\ Len(res.ret) = res.inputOffset + Len(TailOf(arguments, args, Len(args)))

\* C4: a value count that differs from the descriptor count makes Pack return
\* the argument-count error and no bytes, with the codec's pack never invoked
C4_ArityBeforePacking ==
    (op = "Pack" /\ Len(args) # Len(arguments))
    => /\ res.err = "argument count mismatch"
       /\ res.ret = <<>>
       /\ res.packCalls = 0

\* C4 witness: an arity mismatch whose first value the codec would reject
C4_Witness ==
    /\ op = "Pack"
    /\ Len(args) # Len(arguments)
    /\ Len(args) >= 1
    /\ Len(arguments) >= 1
    /\ typePack(arguments[1].Type, args[1]).err # NoErr
    /\ res.err = "argument count mismatch"

\* C5: the k-th non-indexed argument is decoded at byte offset 32 times the
\* head slots of the non-indexed arguments before it; every argument is
\* reached unless an earlier one failed to decode
C5_DecodeCursor ==
    op = "UnpackValues"
    => /\ \A k \in 1..Len(res.cursors) :
            res.cursors[k] = WordSize * SlotsBefore(NonIndexed(arguments), k)
       /\ (res.err = NoErr => Len(res.cursors) = LengthNonIndexed(arguments))
       /\ Len(res.cursors) <= LengthNonIndexed(arguments)

\* C5 witness: the argument after a [2][3] array is decoded at slot 6
C5_Witness ==
    /\ op = "UnpackValues"
    /\ res.err = NoErr
    /\ Len(res.cursors) = 2
    /\ NonIndexed(arguments)[1].Type = ArrayOf(2, ArrayOf(3, UintTy))
    /\ res.cursors[2] = 6 * WordSize

---------------------------------------------------------------------------
(* Claims about Unpack, UnpackIntoMap and PackPrefix *)

\* what UnpackValues makes of the bytes handed to the call
Decoded == UnpackValues(arguments, data)

LastNamed(nonIndexed, key) ==
    IF \E i \in 1..Len(nonIndexed) : nonIndexed[i].Name = key
    THEN CHOOSE i \in 1..Len(nonIndexed) :
            /\ nonIndexed[i].Name = key
            /\ \A j \in (i + 1)..Len(nonIndexed) : nonIndexed[j].Name # key
    ELSE 0

\* C7: a nil map or a failed decode returns an error and leaves the map as it
\* was; otherwise the map is the original overwritten with name -> decoded
\* value of every non-indexed argument, the last argument of a name winning
C7_MapAllOrNothing ==
    op = "UnpackIntoMap"
    => IF v.kind = "NilMap" \/ Decoded.err # NoErr
       THEN res.err # NoErr /\ res.v = v
       ELSE LET nonIndexed == NonIndexed(arguments)
                written == {nonIndexed[i].Name : i \in 1..Len(nonIndexed)}
            IN /\ res.err = NoErr
               /\ res.v.kind = v.kind
               /\ DOMAIN res.v.m = DOMAIN v.m \cup written
               /\ \A k \in DOMAIN res.v.m :
                    res.v.m[k] = IF k \in written
                                 THEN Decoded.retval[LastNamed(nonIndexed, k)]
                                 ELSE v.m[k]

\* C7 witness: two non-indexed arguments of one name written over a map that
\* held that name and another key
C7_Witness ==
    /\ op = "UnpackIntoMap"
    /\ res.err = NoErr
    /\ LengthNonIndexed(arguments) = 2
    /\ arguments[1].Name = arguments[2].Name
    /\ Decoded.retval[1] # Decoded.retval[2]
    /\ arguments[1].Name \in DOMAIN v.m
    /\ "z" \in DOMAIN res.v.m

\* the call reached unpackTuple with a slice or array destination
TupleIntoSlice == op = "Unpack" /\ res.route = "tuple" /\ v.kind = "Slice"

\* positions indexed stay inside the destination and the decoded values
TouchedInRange ==
    \A k \in 1..Len(res.touched) :
        res.touched[k] <= Len(v.elems) /\ res.touched[k] <= Len(Decoded.retval)

\* the first position whose assignment set rejects, count + 1 when none does
FirstRejected(elems, retval, count) ==
    IF \E i \in 1..count : set(elems[i], retval[i]).err # NoErr
    THEN CHOOSE i \in 1..count :
            /\ set(elems[i], retval[i]).err # NoErr
            /\ \A j \in 1..(i - 1) : set(elems[j], retval[j]).err = NoErr
    ELSE count + 1

\* C9 as stated: a destination shorter than the decoded values fails with
\* nothing assigned; otherwise every decoded value below the non-indexed
\* count is assigned to its position, the rest of the destination is left,
\* and no index outside the destination or the decoded values is touched
C9_SliceAssignsAll ==
    TupleIntoSlice
    => IF Len(v.elems) < Len(Decoded.retval)
       THEN res.err # NoErr /\ res.v = v /\ res.touched = <<>>
       ELSE LET count == LengthNonIndexed(arguments)
            IN /\ \A i \in 1..count : res.v.elems[i].val = Decoded.retval[i]
               /\ \A i \in (count + 1)..Len(v.elems) : res.v.elems[i] = v.elems[i]
               /\ Len(res.v.elems) = Len(v.elems)
               /\ TouchedInRange

\* C9 amended: a destination shorter than the decoded values fails with
\* nothing assigned; otherwise the decoded values are assigned to their
\* positions in increasing order up to the first one set rejects: the call
\* fails there with the positions below it assigned and that one and all
\* later ones left; when set rejects none, every position below the
\* non-indexed count is assigned and the call succeeds; no index outside the
\* destination or the decoded values is touched
C9_SliceAssignsUntilRejected ==
    TupleIntoSlice
    => IF Len(v.elems) < Len(Decoded.retval)
       THEN res.err # NoErr /\ res.v = v /\ res.touched = <<>>
       ELSE LET count == LengthNonIndexed(arguments)
                stop == FirstRejected(v.elems, Decoded.retval, count)
            IN /\ \A i \in 1..(stop - 1) : res.v.elems[i].val = Decoded.retval[i]
               /\ \A i \in stop..Len(v.elems) : res.v.elems[i] = v.elems[i]
               /\ Len(res.v.elems) = Len(v.elems)
               /\ res.err = NoErr <=> stop = count + 1
               /\ TouchedInRange

\* C9 witness: a destination longer than the decoded values takes them all,
\* and its last position is left as it was
C9_Witness ==
    /\ TupleIntoSlice
    /\ res.err = NoErr
    /\ Len(Decoded.retval) >= 1
    /\ Len(v.elems) > Len(Decoded.retval)
    /\ res.v.elems[1].val = Decoded.retval[1]
    /\ res.v.elems[Len(v.elems)] = v.elems[Len(v.elems)]

RECURSIVE AllAddresses(_, _, _)
\* the addresses of the first n values, in argument order
AllAddresses(abiArgs, args_, n) ==
    IF n = 0 THEN <<>>
    ELSE AllAddresses(abiArgs, args_, n - 1) \o getAllAddress(abiArgs[n].Type, args_[n]).pkrs

\* C8: when extraction succeeds the output is 2 bytes holding the big-endian
\* number N of addresses, then the N records in argument order: 2 + N * 96
\* bytes for every N
C8_TwoBytePrefix ==
    (op = "PackPrefix" /\ res.err = NoErr)
    => LET N == Len(AllAddresses(arguments, args, Len(args)))
       IN /\ Len(res.lenBytes) = 2
          /\ BigEndian(res.lenBytes) = N
          /\ res.records = AllAddresses(arguments, args, Len(args))
          /\ RetLen(res) = 2 + N * PKrSize

\* up to 65535 addresses the format of C8 holds
PrefixFormatUpToMaxUint16 ==
    (op = "PackPrefix" /\ res.err = NoErr /\ Len(res.records) <= MaxUint16)
    => C8_TwoBytePrefix

\* a call that fails on a destination too short for the decoded values
ShortDestinationFails ==
    /\ TupleIntoSlice
    /\ Len(v.elems) < Len(Decoded.retval)
    /\ Len(v.elems) >= 1
    /\ res.err # NoErr

====
